---- MODULE Spec2Model ----
(***************************************************************************)
(* Model of the OpenBLAS Conan recipe (conanfile.py).                      *)
(*                                                                         *)
(* The recipe is driven by Conan in a fixed order: the class body is       *)
(* executed when the recipe is loaded (which fetches and verifies the      *)
(* target manifest), the recipe is instantiated with the profile's         *)
(* settings and options, then configure(), build_requirements(), source(), *)
(* build(), package() and package_info() run one after the other.  An      *)
(* exception raised by any step ends the run.                              *)
(*                                                                         *)
(* Text is modelled as a sequence of one-character strings where the code  *)
(* inspects characters (the manifest), and as a string everywhere else.    *)
(***************************************************************************)
EXTENDS Integers, Sequences, FiniteSets, TLC

VARIABLES
    pc,             \* the step Conan runs next; "done" or "failed" at the end
    error,          \* message of the exception that ended the run, "" if none
    target_list,    \* body of the fetched manifest (characters)
    targets,        \* OpenblasConan._targets
    settings,       \* self.settings: os, arch, compiler, build_type
    cross,          \* what tools.cross_building(self.settings) answers
    options,        \* self.options
    requested,      \* the option values the caller asked for
    environ,        \* os.environ restricted to CC, AR, CC_FOR_BUILD
    path,           \* the programs tools.which finds on the search path
    output,         \* self.output: the messages written, in order
    fetches,        \* the URLs fetched, in order
    subprocesses,   \* the external build tool invocations, in order
    build_requires, \* the build requirements declared
    source_folder,  \* the directories present in the source folder
    package_folder, \* what was copied into the package folder
    cpp_info        \* self.cpp_info: libs and includedirs

vars == <<pc, error, target_list, targets, settings, cross, options, requested,
          environ, path, output, fetches, subprocesses, build_requires,
          source_folder, package_folder, cpp_info>>

----------------------------------------------------------------------------
(* Bounds of the model *)

\* longest manifest body explored, in lines
MaxLines == 3

----------------------------------------------------------------------------
(* Text helpers *)

UpperCase ==
    {"A", "B", "C", "D", "E", "F", "G", "H", "I", "J", "K", "L", "M",
     "N", "O", "P", "Q", "R", "S", "T", "U", "V", "W", "X", "Y", "Z"}

RECURSIVE str(_)
\* the string made of the characters cs
str(cs) == IF cs = <<>> THEN "" ELSE Head(cs) \o str(Tail(cs))

RECURSIVE join(_, _)
\* sep.join(items), as characters
join(sep, items) ==
    IF items = <<>> THEN <<>>
    ELSE IF Len(items) = 1 THEN Head(items)
    ELSE Head(items) \o <<sep>> \o join(sep, Tail(items))

RECURSIVE split(_, _)
\* text.split(sep): always at least one piece, the pieces never hold sep
split(text, sep) ==
    IF \A i \in 1..Len(text) : text[i] # sep THEN <<text>>
    ELSE LET k == CHOOSE i \in 1..Len(text) :
                      text[i] = sep /\ \A j \in 1..(i - 1) : text[j] # sep
         IN  <<SubSeq(text, 1, k - 1)>> \o split(SubSeq(text, k + 1, Len(text)), sep)

----------------------------------------------------------------------------
(* The manifest *)

\* lines a manifest body is made of: the shapes found in TargetList.txt
ManifestLines ==
    { <<"P", "2">>,
      <<"K", "A", "T", "M", "A", "I">>,
      <<"A", "T", "O", "M">>,
      <<>> }

\* the body upstream publishes for this version
UpstreamTargetList ==
    join("\n", << <<"P", "2">>, <<"K", "A", "T", "M", "A", "I">>, <<"A", "T", "O", "M">> >>)

\* every body the server may answer with
Bodies ==
    UNION { { join("\n", ls) : ls \in [1..n -> ManifestLines] } : n \in 0..MaxLines }

ManifestUrl == "https://raw.githubusercontent.com/xianyi/OpenBLAS/v0.3.5/TargetList.txt"

\* hashlib.sha256(text).hexdigest(): equal digests only for equal texts
sha256_hexdigest(text) ==
    IF text = UpstreamTargetList
    THEN "383b9fb0113801fa00efbb9c80f5dd90ded99c893b3164a86e27289400600bde"
    ELSE "sha256:" \o ToString(text)

expected_digest == "383b9fb0113801fa00efbb9c80f5dd90ded99c893b3164a86e27289400600bde"

DigestError == "The computed digest is not equal to the expected digest"

\* re.compile("^[A-Z]+$").match(line)
pattern_match(line) ==
    /\ Len(line) >= 1
    /\ \A i \in 1..Len(line) : line[i] \in UpperCase

\* the digest comparison left out
digest_unchecked(text) == FALSE

\* the digest comparison of _load_possible_targets
digest_rejected(text) == ~(sha256_hexdigest(text) = expected_digest)

RECURSIVE matching_lines(_)
\* the loop over the lines of the manifest
matching_lines(lines) ==
    IF lines = <<>> THEN <<>>
    ELSE (IF pattern_match(Head(lines)) THEN <<str(Head(lines))>> ELSE <<>>)
         \o matching_lines(Tail(lines))

\* _load_possible_targets(version), given the body the server answered with
load_possible_targets(text) ==
    IF digest_rejected(text)
    THEN [raised |-> TRUE, result |-> <<>>]
    ELSE [raised |-> FALSE, result |-> matching_lines(split(text, "\n"))]

----------------------------------------------------------------------------
(* The recipe's declarations *)

OsNames == {"Windows", "Linux", "Macos"}
ArchNames == {"x86", "x86_64"}
CompilerNames == {"Visual Studio", "gcc"}
BuildTypes == {"Release", "Debug"}
EnvNames == {"CC", "AR", "CC_FOR_BUILD"}
Programs == {"cc", "gcc", "clang"}

\* the value each environment variable holds when it is set
EnvValue(name) ==
    CASE name = "CC" -> "arm-linux-gnueabihf-gcc"
      [] name = "AR" -> "arm-linux-gnueabihf-ar"
      [] name = "CC_FOR_BUILD" -> "/opt/host/bin/gcc"

PackageDir == "/package"

NoSettings == [os |-> "", arch |-> "", compiler |-> "", build_type |-> ""]

NoOptions ==
    [shared |-> FALSE, USE_MASS |-> FALSE, USE_OPENMP |-> FALSE,
     NO_LAPACKE |-> FALSE, NOFORTRAN |-> FALSE, TARGET |-> ""]

\* default_options, given the loaded targets
default_options ==
    [shared |-> TRUE, USE_MASS |-> FALSE, USE_OPENMP |-> FALSE,
     NO_LAPACKE |-> TRUE, NOFORTRAN |-> FALSE, TARGET |-> targets[1]]

\* the values the options declaration admits
OptionValues ==
    [shared : BOOLEAN, USE_MASS : BOOLEAN, USE_OPENMP : BOOLEAN,
     NO_LAPACKE : BOOLEAN, NOFORTRAN : BOOLEAN,
     TARGET : {targets[i] : i \in 1..Len(targets)}]

\* Python values that are either None or a string
None == [none |-> TRUE, s |-> ""]
Some(s) == [none |-> FALSE, s |-> s]
truthy(v) == ~v.none /\ v.s # ""
py_or(a, b) == IF truthy(a) THEN a ELSE b
\* "%s" % v
format(v) == IF v.none THEN "None" ELSE v.s

\* tools.which(name)
which(name) == IF name \in path THEN Some("/usr/bin/" \o name) ELSE None

\* the two bitness values swapped
_get_make_arch_swapped == IF settings.arch = "x86" THEN "64" ELSE "32"

_get_make_arch == IF settings.arch = "x86" THEN "32" ELSE "64"

_get_make_build_type_debug == IF settings.build_type = "Release" THEN "0" ELSE "1"

_get_make_option_value(option) == IF option THEN "1" ELSE "0"

_is_msvc == settings.compiler = "Visual Studio"

StaticError == "Static build not supported in Visual Studio"
NofortranWarning == "NOFORTRAN option is disabled for Windows. Setting to false"
CMakeWarning == "Building with CMake: Some options won't make any effect"
IndexError == "list index out of range"
ToolError == "the external build tool failed"
NetworkError == "the fetch failed"

Warn(msg) == [level |-> "warn", msg |-> msg]
Info(msg) == [level |-> "info", msg |-> msg]

----------------------------------------------------------------------------
(* Initial state: nothing loaded yet *)

Init ==
    /\ pc = "load"
    /\ error = ""
    /\ target_list = <<>>
    /\ targets = <<>>
    /\ settings = NoSettings
    /\ cross = FALSE
    /\ options = NoOptions
    /\ requested = NoOptions
    /\ environ = <<>>
    /\ path = {}
    /\ output = <<>>
    /\ fetches = <<>>
    /\ subprocesses = <<>>
    /\ build_requires = <<>>
    /\ source_folder = {}
    /\ package_folder = {}
    /\ cpp_info = [libs |-> <<>>, includedirs |-> <<"include">>]

\* the class body: _targets = _load_possible_targets(version)
Load ==
    /\ pc = "load"
    /\ fetches' = Append(fetches, ManifestUrl)
    /\ \/ /\ pc' = "failed"
          /\ error' = NetworkError
          /\ UNCHANGED <<target_list, targets>>
       \/ \E body \in Bodies :
            LET loaded == load_possible_targets(body) IN
            /\ target_list' = body
            /\ IF loaded.raised
               THEN /\ pc' = "failed"
                    /\ error' = DigestError
                    /\ UNCHANGED targets
               ELSE /\ targets' = loaded.result
                    /\ IF loaded.result = <<>>
                       THEN pc' = "failed" /\ error' = IndexError
                       ELSE pc' = "instantiate" /\ UNCHANGED error
    /\ UNCHANGED <<settings, cross, options, requested, environ, path, output,
                   subprocesses, build_requires, source_folder, package_folder,
                   cpp_info>>

\* the recipe object is created: settings from the profile, the caller's
\* option values layered on default_options, the process environment
Instantiate ==
    /\ pc = "instantiate"
    /\ \E s \in [os : OsNames, arch : ArchNames, compiler : CompilerNames,
                 build_type : BuildTypes] : settings' = s
    /\ cross' \in BOOLEAN
    /\ \E o \in OptionValues : options' = o /\ requested' = o
    /\ \E names \in SUBSET EnvNames : environ' = [n \in names |-> EnvValue(n)]
    /\ path' \in SUBSET Programs
    /\ pc' = "configure"
    /\ UNCHANGED <<error, target_list, targets, output, fetches, subprocesses,
                   build_requires, source_folder, package_folder, cpp_info>>

\* the test on shared inverted
static_msvc_inverted == settings.compiler = "Visual Studio" /\ options.shared

\* configure(): the static build is refused for Visual Studio
static_msvc == settings.compiler = "Visual Studio" /\ ~options.shared

\* the reset attached to the wrong operating system
nofortran_disabled_wrong_os == settings.os = "Linux" /\ options.NOFORTRAN

\* the reset and its warning applied whatever the option's value
nofortran_disabled_always == settings.os = "Windows"

\* configure(): the condition under which NOFORTRAN is reset, with a warning
nofortran_disabled == settings.os = "Windows" /\ options.NOFORTRAN

configure ==
    /\ pc = "configure"
    /\ IF static_msvc
       THEN /\ pc' = "failed"
            /\ error' = StaticError
            /\ UNCHANGED <<options, output>>
       ELSE /\ output' = IF nofortran_disabled
                         THEN Append(output, Warn(NofortranWarning))
                         ELSE output
            /\ options' = IF nofortran_disabled
                          THEN [options EXCEPT !.NOFORTRAN = FALSE]
                          ELSE options
            /\ pc' = "build_requirements"
            /\ UNCHANGED error
    /\ UNCHANGED <<target_list, targets, settings, cross, requested, environ,
                   path, fetches, subprocesses, build_requires, source_folder,
                   package_folder, cpp_info>>

build_requirements ==
    /\ pc = "build_requirements"
    /\ build_requires' = IF settings.os = "Windows"
                         THEN Append(build_requires, "strawberryperl/5.26.0@conan/stable")
                         ELSE build_requires
    /\ pc' = "source"
    /\ UNCHANGED <<error, target_list, targets, settings, cross, options,
                   requested, environ, path, output, fetches, subprocesses,
                   source_folder, package_folder, cpp_info>>

SourceUrl == "https://sourceforge.net/projects/openblas/files/v0.3.5/OpenBLAS 0.3.5 version.tar.gz"

source ==
    /\ pc = "source"
    /\ output' = Append(output, Info("source()"))
    /\ fetches' = Append(fetches, SourceUrl)
    /\ \/ /\ pc' = "failed"
          /\ error' = NetworkError
          /\ UNCHANGED source_folder
       \/ /\ source_folder' = source_folder \cup {"sources"}
          /\ pc' = "build"
          /\ UNCHANGED error
    /\ UNCHANGED <<target_list, targets, settings, cross, options, requested,
                   environ, path, subprocesses, build_requires, package_folder,
                   cpp_info>>

----------------------------------------------------------------------------
(* The external build tool *)

NoDefinitions == [k \in {} |-> FALSE]

MakeRun(args) ==
    [tool |-> "make", phase |-> "", args |-> args, definitions |-> NoDefinitions]

CMakeRun(phase, definitions) ==
    [tool |-> "cmake", phase |-> phase, args |-> <<>>, definitions |-> definitions]

\* NO_LAPACKE bound to the value of the option above it
cmake_definitions_miscopied ==
    [name \in {"USE_MASS", "USE_OPENMP", "NO_LAPACKE", "NOFORTRAN"} |->
        IF name = "NO_LAPACKE" THEN options["USE_OPENMP"] ELSE options[name]]

\* _configure_cmake(): the cache variables the recipe defines
cmake_definitions ==
    [name \in {"USE_MASS", "USE_OPENMP", "NO_LAPACKE", "NOFORTRAN"} |-> options[name]]

\* _build_make(): the host compiler handed to HOSTCC
hostcc ==
    IF "CC_FOR_BUILD" \in DOMAIN environ
    THEN Some(environ["CC_FOR_BUILD"])
    ELSE py_or(py_or(which("cc"), which("gcc")), which("clang"))

\* _build_make(): the arguments every make invocation starts with
fixed_make_options ==
    << "DEBUG=" \o _get_make_build_type_debug,
       "BINARY=" \o _get_make_arch,
       "NO_LAPACKE=" \o _get_make_option_value(options.NO_LAPACKE),
       "USE_MASS=" \o _get_make_option_value(options.USE_MASS),
       "USE_OPENMP=" \o _get_make_option_value(options.USE_OPENMP),
       "NOFORTRAN=" \o _get_make_option_value(options.NOFORTRAN) >>

\* _build_make(): NO_STATIC or NO_SHARED
linkage_make_option ==
    IF options.shared THEN <<"NO_STATIC=1">> ELSE <<"NO_SHARED=1">>

\* TARGET appended before HOSTCC
conditional_make_options_reordered ==
    (IF options.TARGET # "" THEN <<"TARGET=" \o options.TARGET>> ELSE <<>>)
    \o (IF cross THEN <<"HOSTCC=" \o format(hostcc)>> ELSE <<>>)
    \o (IF "CC" \in DOMAIN environ THEN <<"CC=" \o environ["CC"]>> ELSE <<>>)
    \o (IF "AR" \in DOMAIN environ THEN <<"AR=" \o environ["AR"]>> ELSE <<>>)

\* _build_make(): the arguments that depend on the environment
conditional_make_options ==
    (IF cross THEN <<"HOSTCC=" \o format(hostcc)>> ELSE <<>>)
    \o (IF options.TARGET # "" THEN <<"TARGET=" \o options.TARGET>> ELSE <<>>)
    \o (IF "CC" \in DOMAIN environ THEN <<"CC=" \o environ["CC"]>> ELSE <<>>)
    \o (IF "AR" \in DOMAIN environ THEN <<"AR=" \o environ["AR"]>> ELSE <<>>)

\* _build_make(args): the argument list passed to make
make_options(args) ==
    fixed_make_options \o linkage_make_option \o conditional_make_options
    \o (IF args # <<>> THEN args ELSE <<>>)

\* the commands cmds are run in order; the first one that exits non-zero
\* raises and the rest are not run
Run(cmds, next) ==
    \E n \in 0..Len(cmds) :
        IF n = Len(cmds)
        THEN /\ subprocesses' = subprocesses \o cmds
             /\ pc' = next
             /\ UNCHANGED error
        ELSE /\ subprocesses' = subprocesses \o SubSeq(cmds, 1, n + 1)
             /\ pc' = "failed"
             /\ error' = ToolError

\* build(): _build_cmake() for Visual Studio, _build_make() otherwise
build ==
    /\ pc = "build"
    /\ IF _is_msvc
       THEN /\ output' = Append(output, Warn(CMakeWarning))
            /\ Run(<<CMakeRun("configure", cmake_definitions),
                     CMakeRun("build", cmake_definitions)>>, "package")
       ELSE /\ Run(<<MakeRun(make_options(<<>>))>>, "package")
            /\ UNCHANGED output
    /\ UNCHANGED <<target_list, targets, settings, cross, options, requested,
                   environ, path, fetches, build_requires, source_folder,
                   package_folder, cpp_info>>

\* package(): the arguments of the install phase
install_args == <<"PREFIX=" \o PackageDir, "install">>

\* package(): make install or cmake install; if it raised, no licence is copied
package ==
    /\ pc = "package"
    /\ IF ~_is_msvc
       THEN /\ Run(<<MakeRun(make_options(install_args))>>, "package_info")
            /\ UNCHANGED output
       ELSE /\ output' = Append(output, Warn(CMakeWarning))
            /\ Run(<<CMakeRun("configure", cmake_definitions),
                     CMakeRun("install", cmake_definitions)>>, "package_info")
    /\ package_folder' = IF pc' = "failed" THEN package_folder
                         ELSE package_folder \cup {"licenses/LICENSE"}
    /\ UNCHANGED <<target_list, targets, settings, cross, options, requested,
                   environ, path, fetches, build_requires, source_folder,
                   cpp_info>>

\* tools.collect_libs(self)
collect_libs == <<"openblas">>

\* gfortran appended whatever NOFORTRAN says
extra_libs_always_fortran ==
    IF settings.os = "Linux" THEN <<"pthread", "gfortran">> ELSE <<>>

\* package_info(): the link dependencies appended after the collected names
extra_libs ==
    IF settings.os = "Linux"
    THEN <<"pthread">> \o (IF ~options.NOFORTRAN THEN <<"gfortran">> ELSE <<>>)
    ELSE <<>>

package_info ==
    /\ pc = "package_info"
    /\ cpp_info' =
         [libs |-> collect_libs \o extra_libs,
          includedirs |-> IF _is_msvc
                          THEN Append(cpp_info.includedirs, "include/openblas")
                          ELSE cpp_info.includedirs]
    /\ pc' = "done"
    /\ UNCHANGED <<error, target_list, targets, settings, cross, options,
                   requested, environ, path, output, fetches, subprocesses,
                   build_requires, source_folder, package_folder>>

Next ==
    \/ Load
    \/ Instantiate
    \/ configure
    \/ build_requirements
    \/ source
    \/ build
    \/ package
    \/ package_info

Spec == Init /\ [][Next]_vars

----------------------------------------------------------------------------
(* Vocabulary of the properties *)

\* configure() has run and returned without raising
ConfigureReturned ==
    /\ settings # NoSettings
    /\ pc # "configure"
    /\ error # StaticError

MakeRuns == {i \in 1..Len(subprocesses) : subprocesses[i].tool = "make"}
CMakeRuns == {i \in 1..Len(subprocesses) : subprocesses[i].tool = "cmake"}

\* how often the NOFORTRAN warning was written
NofortranWarnings ==
    Cardinality({i \in 1..Len(output) : output[i] = Warn(NofortranWarning)})

\* the targets a manifest of the explored shapes can name
KnownTargets == {str(l) : l \in {m \in ManifestLines : pattern_match(m)}}

\* the values a make argument can carry
ArgValues ==
    {"0", "1", "32", "64", "None", PackageDir}
    \cup {"/usr/bin/" \o p : p \in Programs}
    \cup {EnvValue(n) : n \in EnvNames}
    \cup KnownTargets

\* the keys of the make arguments, in the order they must keep
Keys ==
    <<"DEBUG", "BINARY", "NO_LAPACKE", "USE_MASS", "USE_OPENMP", "NOFORTRAN",
      "NO_STATIC", "HOSTCC", "TARGET", "CC", "AR", "PREFIX", "install">>

\* the arguments that take the given place
ArgsOfRank(r) ==
    CASE r = 7 -> {"NO_STATIC=1", "NO_SHARED=1"}
      [] r = Len(Keys) -> {"install"}
      [] OTHER -> {Keys[r] \o "=" \o v : v \in ArgValues}

RankTable ==
    [arg \in UNION {ArgsOfRank(r) : r \in 1..Len(Keys)} |->
        CHOOSE r \in 1..Len(Keys) : arg \in ArgsOfRank(r)]

\* the place of an argument in the order, 0 for an unknown argument
Rank(arg) == IF arg \in DOMAIN RankTable THEN RankTable[arg] ELSE 0

Present(args, rank) == \E i \in 1..Len(args) : Rank(args[i]) = rank

\* the arguments are known ones, each at most once, in the required order
InOrder(args) ==
    /\ \A i \in 1..Len(args) : Rank(args[i]) > 0
    /\ \A i, j \in 1..Len(args) : i < j => Rank(args[i]) < Rank(args[j])

Bit(b) == IF b THEN "1" ELSE "0"

----------------------------------------------------------------------------
(* Properties *)

\* C1: with a Visual Studio compiler and shared false, configure fails with
\* the configuration error and the run never invokes the external build
\* tool, neither before nor after the failure.
C1_StaticMsvcRejected ==
    (settings.compiler = "Visual Studio" /\ ~requested.shared) =>
        /\ subprocesses = <<>>
        /\ pc \in {"configure", "failed"}
        /\ (pc = "failed" => error = StaticError)

C1_Witness ==
    /\ settings.compiler = "Visual Studio"
    /\ ~requested.shared
    /\ pc = "failed"
    /\ error = StaticError
    /\ subprocesses = <<>>

\* C2 as stated: when the run with a Visual Studio compiler and shared false
\* has failed, no fetch at all has been recorded.
C2_NoFetchRecorded ==
    (settings.compiler = "Visual Studio" /\ ~requested.shared /\ pc = "failed") =>
        fetches = <<>>

\* C2: in a run with a Visual Studio compiler and shared false the source
\* archive is never fetched; the only fetch recorded is the manifest fetch
\* made when the recipe was loaded, before configure ran.
C2_OnlyManifestFetched ==
    (settings.compiler = "Visual Studio" /\ ~requested.shared) =>
        /\ fetches = <<ManifestUrl>>
        /\ source_folder = {}
        /\ pc \in {"configure", "failed"}

C2_Witness ==
    /\ settings.compiler = "Visual Studio"
    /\ ~requested.shared
    /\ error = StaticError
    /\ fetches = <<ManifestUrl>>

\* C3: on Windows, once configure has returned, NOFORTRAN is false whatever
\* the caller requested: in the options package_info reads, in the NOFORTRAN=
\* argument of every make invocation and in the NOFORTRAN definition of every
\* CMake invocation.
C3_WindowsNofortranFalse ==
    (settings.os = "Windows" /\ ConfigureReturned) =>
        /\ options.NOFORTRAN = FALSE
        /\ \A i \in MakeRuns : subprocesses[i].args[6] = "NOFORTRAN=0"
        /\ \A i \in CMakeRuns : subprocesses[i].definitions["NOFORTRAN"] = FALSE

C3_Witness ==
    /\ settings.os = "Windows"
    /\ requested.NOFORTRAN
    /\ pc = "done"
    /\ MakeRuns # {}
    /\ ~options.NOFORTRAN

\* C4 as stated: on Windows a configure step that returns has written the
\* NOFORTRAN warning exactly once, whether the caller requested true or false.
C4_WarnedOnceAlways ==
    (settings.os = "Windows" /\ ConfigureReturned) => NofortranWarnings = 1

\* C4: on Windows a configure step that returns has written the NOFORTRAN
\* warning exactly once when the caller requested NOFORTRAN true, and not at
\* all when the caller requested false.
C4_WarnedOnceIffRequested ==
    (settings.os = "Windows" /\ ConfigureReturned) =>
        NofortranWarnings = (IF requested.NOFORTRAN THEN 1 ELSE 0)

C4_Witness ==
    /\ settings.os = "Windows"
    /\ requested.NOFORTRAN
    /\ ConfigureReturned
    /\ NofortranWarnings = 1

\* C5: every CMake invocation carries exactly the definitions USE_MASS,
\* USE_OPENMP, NO_LAPACKE and NOFORTRAN, each with the current value of the
\* option of that name, and CMake is invoked only for Visual Studio.
C5_CMakeDefinitions ==
    \A i \in CMakeRuns :
        /\ _is_msvc
        /\ DOMAIN subprocesses[i].definitions =
              {"USE_MASS", "USE_OPENMP", "NO_LAPACKE", "NOFORTRAN"}
        /\ subprocesses[i].definitions["USE_MASS"] = options.USE_MASS
        /\ subprocesses[i].definitions["USE_OPENMP"] = options.USE_OPENMP
        /\ subprocesses[i].definitions["NO_LAPACKE"] = options.NO_LAPACKE
        /\ subprocesses[i].definitions["NOFORTRAN"] = options.NOFORTRAN

C5_Witness ==
    /\ pc = "done"
    /\ _is_msvc
    /\ Cardinality(CMakeRuns) = 4
    /\ options.NO_LAPACKE
    /\ ~options.USE_OPENMP
    /\ subprocesses[1].phase = "configure"
    /\ subprocesses[1].definitions["NO_LAPACKE"]

\* C6: the arguments of every make invocation keep the order DEBUG, BINARY,
\* NO_LAPACKE, USE_MASS, USE_OPENMP, NOFORTRAN, NO_STATIC or NO_SHARED,
\* HOSTCC, TARGET, CC, AR, then the caller's arguments; the first seven are
\* always there, HOSTCC iff cross-compiling, TARGET iff it is non-empty, CC
\* and AR iff set in the environment; the build phase adds nothing and the
\* install phase ends with PREFIX=<package dir> and install.
C6_MakeArgumentOrder ==
    \A i \in MakeRuns :
        LET args == subprocesses[i].args IN
        /\ InOrder(args)
        /\ \A r \in 1..7 : Rank(args[r]) = r
        /\ Present(args, 8) <=> cross
        /\ Present(args, 9) <=> options.TARGET # ""
        /\ Present(args, 10) <=> "CC" \in DOMAIN environ
        /\ Present(args, 11) <=> "AR" \in DOMAIN environ
        /\ i = 1 => ~Present(args, 12) /\ ~Present(args, 13)
        /\ i = 2 => /\ args[Len(args) - 1] = "PREFIX=" \o PackageDir
                    /\ args[Len(args)] = "install"

C6_Witness ==
    /\ Len(subprocesses) = 2
    /\ subprocesses[2].tool = "make"
    /\ cross
    /\ Len(subprocesses[2].args) = 13
    /\ subprocesses[2].args[8] = "HOSTCC=/usr/bin/gcc"
    /\ subprocesses[2].args[13] = "install"

\* C7: when the digest of the fetched manifest is not the expected one,
\* loading fails with the digest error, no line of the manifest becomes a
\* target and no option set is built from it.
C7_TamperedManifestRejected ==
    (/\ pc # "load"
     /\ error # NetworkError
     /\ sha256_hexdigest(target_list) # expected_digest) =>
        /\ pc = "failed"
        /\ error = DigestError
        /\ targets = <<>>
        /\ options = NoOptions

C7_Witness ==
    /\ pc = "failed"
    /\ error = DigestError
    /\ target_list = <<"A", "T", "O", "M">>
    /\ targets = <<>>

\* C8: package_info reports the collected library names followed, on Linux,
\* by pthread and then gfortran iff NOFORTRAN is false, and by nothing on any
\* other operating system.
C8_ExtraLinkDependencies ==
    pc = "done" =>
        cpp_info.libs =
            collect_libs
            \o (IF settings.os = "Linux" THEN <<"pthread">> ELSE <<>>)
            \o (IF settings.os = "Linux" /\ options.NOFORTRAN = FALSE
                THEN <<"gfortran">> ELSE <<>>)

C8_Witness ==
    /\ pc = "done"
    /\ settings.os = "Linux"
    /\ options.NOFORTRAN
    /\ cpp_info.libs = <<"openblas", "pthread">>

\* C9: with the default options (shared true, TARGET the first manifest
\* entry) on Linux, gcc, x86_64, in a Release build that is not a
\* cross-compilation and has neither CC nor AR set, the build step invokes
\* make with exactly DEBUG=0 BINARY=64 NO_LAPACKE=1 USE_MASS=0 USE_OPENMP=0
\* NOFORTRAN=0 NO_STATIC=1 TARGET=<first entry>; and in every make
\* invocation DEBUG is 0 iff the build type is Release, BINARY is 32 iff the
\* architecture is x86 and 64 otherwise, and each boolean option is rendered
\* 1 for true and 0 for false.
C9_DefaultLinuxBuild ==
    \A i \in MakeRuns :
        LET args == subprocesses[i].args IN
        /\ (/\ i = 1
            /\ requested = default_options
            /\ settings = [os |-> "Linux", arch |-> "x86_64", compiler |-> "gcc",
                           build_type |-> "Release"]
            /\ ~cross
            /\ DOMAIN environ \cap {"CC", "AR"} = {}) =>
               args = <<"DEBUG=0", "BINARY=64", "NO_LAPACKE=1", "USE_MASS=0",
                        "USE_OPENMP=0", "NOFORTRAN=0", "NO_STATIC=1",
                        "TARGET=" \o targets[1]>>
        /\ args[1] = (IF settings.build_type = "Release" THEN "DEBUG=0" ELSE "DEBUG=1")
        /\ args[2] = (IF settings.arch = "x86" THEN "BINARY=32" ELSE "BINARY=64")
        /\ args[3] = "NO_LAPACKE=" \o Bit(options.NO_LAPACKE)
        /\ args[4] = "USE_MASS=" \o Bit(options.USE_MASS)
        /\ args[5] = "USE_OPENMP=" \o Bit(options.USE_OPENMP)
        /\ args[6] = "NOFORTRAN=" \o Bit(options.NOFORTRAN)

C9_Witness ==
    /\ pc = "package"
    /\ requested = default_options
    /\ settings = [os |-> "Linux", arch |-> "x86_64", compiler |-> "gcc",
                   build_type |-> "Release"]
    /\ ~cross
    /\ DOMAIN environ \cap {"CC", "AR"} = {}
    /\ Len(subprocesses) = 1
    /\ subprocesses[1].tool = "make"
    /\ subprocesses[1].args[8] = "TARGET=KATMAI"

\* the host compilers the HOSTCC argument may name: CC_FOR_BUILD when it is
\* set, otherwise the first of cc, gcc, clang found on the search path
ResolvedHostCompilers ==
    IF "CC_FOR_BUILD" \in DOMAIN environ
    THEN {environ["CC_FOR_BUILD"]}
    ELSE IF "cc" \in path THEN {"/usr/bin/cc"}
    ELSE IF "gcc" \in path THEN {"/usr/bin/gcc"}
    ELSE IF "clang" \in path THEN {"/usr/bin/clang"}
    ELSE {}

\* C10: a make invocation carries a HOSTCC argument iff the build is a
\* cross-compilation, and its value is a resolved host C compiler: the value
\* of CC_FOR_BUILD when set, otherwise the first of cc, gcc, clang found on
\* the search path.
C10_HostccResolved ==
    \A i \in MakeRuns :
        LET args == subprocesses[i].args IN
        /\ Present(args, 8) <=> cross
        /\ cross => \E c \in ResolvedHostCompilers : args[8] = "HOSTCC=" \o c

====
